---- MODULE Spec2Model ----
(***************************************************************************)
(* Model of the weather wasi-http demo (weather/src/main.rs): one inbound *)
(* request is resolved into a Query, the geocoding service is searched,   *)
(* one forecast fetch per location runs concurrently under try_join, and  *)
(* main maps the outcome of handle to an http response.                   *)
(*                                                                         *)
(* Option<T> is modelled as a sequence: None is <<>>, Some(x) is <<x>>.    *)
(* A String built with push_str/format! is a sequence of its pieces.       *)
(* An anyhow::Error is its context chain, outermost context first.         *)
(***************************************************************************)
EXTENDS Integers, Sequences, FiniteSets, TLC

VARIABLES req, geoAnswer, fcAnswer, pc, parsed, query, locations, fetches,
          order, calls, response, nresp, prev, runs

vars == <<req, geoAnswer, fcAnswer, pc, parsed, query, locations, fetches,
          order, calls, response, nresp, prev, runs>>

None == <<>>
Some(x) == <<x>>

\* ---------------------------------------------------------------- bounds
\* longest result list the geocoding service returns in the model
MaxResults == 2
\* number of times the same request is served against the same upstream
MaxRuns == 2
\* longest result list in the ranking specification
MaxRank == 3
\* longest result list in the qualified name specification
MaxName == 1
\* longest Signature header value in the gateway specification
MaxSigLen == 2
\* longest request body, in json tokens, in the filter specification
MaxBody == 5

\* ------------------------------------------------------- program constants
OK == 200
BAD_REQUEST == 400
METHOD_NOT_ALLOWED == 405
INTERNAL_SERVER_ERROR == 500

default_count == 10

\* ------------------------------------------------------------ error chains
StatusCtx(code) == [ty |-> "StatusCode", code |-> code, msg |-> "", arg |-> <<>>]
Msg(m) == [ty |-> "str", code |-> 0, msg |-> m, arg |-> <<>>]
MsgArg(m, a) == [ty |-> "str", code |-> 0, msg |-> m, arg |-> a]

\* Result<T, anyhow::Error>
Ok(v) == [ok |-> TRUE, val |-> v, err |-> <<>>]
Err(chain) == [ok |-> FALSE, val |-> <<>>, err |-> chain]
\* anyhow's Context::context on a Result: the new context becomes outermost
Context(r, c) == IF r.ok THEN r ELSE Err(<<c>> \o r.err)

\* ------------------------------------------------------------ the request
Methods == {"GET", "POST"}
Cities == {"Springfield"}
CountStrs == {"0", "1", "x"}
QueryStrings ==
    {[city |-> c, count |-> n] :
        c \in {None} \cup {Some(x) : x \in Cities},
        n \in {None} \cup {Some(s) : s \in CountStrs}}
Requests ==
    {[method |-> m, query |-> q] :
        m \in Methods, q \in {None} \cup {Some(s) : s \in QueryStrings}}

\* u32::from_str on the decimal strings of the model; anything else fails
ParseU32(s) ==
    CASE s = "0" -> Some(0)
      [] s = "1" -> Some(1)
      [] s = "2" -> Some(2)
      [] s = "10" -> Some(10)
      [] OTHER -> None

DefaultQuery == [city |-> "Portland", count |-> default_count]

\* a deserializer in which city falls back to the default place
serde_qs_city_default(qs) ==
    LET city == IF qs.city = None THEN "Portland" ELSE qs.city[1]
    IN  IF qs.count = None
          THEN Ok([city |-> city, count |-> default_count])
        ELSE IF ParseU32(qs.count[1]) = None
          THEN Err(<<Msg("invalid digit found in string")>>)
        ELSE Ok([city |-> city, count |-> ParseU32(qs.count[1])[1]])

\* serde_qs::from_str::<Query>: city is required, count falls back to
\* default_count when the key is absent
serde_qs_from_str(qs) ==
    IF qs.city = None
      THEN Err(<<Msg("missing field city")>>)
    ELSE IF qs.count = None
      THEN Ok([city |-> qs.city[1], count |-> default_count])
    ELSE IF ParseU32(qs.count[1]) = None
      THEN Err(<<Msg("invalid digit found in string")>>)
    ELSE Ok([city |-> qs.city[1], count |-> ParseU32(qs.count[1])[1]])

\* a get_query without the default for a missing query string
get_query_no_default(r) ==
    LET qs == IF r.query = None THEN [city |-> None, count |-> None] ELSE r.query[1]
        q == Context(serde_qs_from_str(qs), StatusCtx(BAD_REQUEST))
    IN  IF ~q.ok THEN q
        ELSE IF q.val.count = 0
          THEN Err(<<StatusCtx(BAD_REQUEST), Msg("nonzero count required")>>)
        ELSE q

get_query(r) ==
    IF r.query = None
      THEN Ok(DefaultQuery)
    ELSE LET q == Context(serde_qs_from_str(r.query[1]), StatusCtx(BAD_REQUEST))
         IN  IF ~q.ok THEN q
             ELSE IF q.val.count = 0
               THEN Err(<<StatusCtx(BAD_REQUEST), Msg("nonzero count required")>>)
             ELSE q

\* ---------------------------------------------------- the geocoding stage
\* Raw results of the geocoding service (fetch_locations::Item).  f64
\* coordinates are whole numbers here; they key the forecast service.
GeoItems ==
    { [name |-> "Portland", latitude |-> 45, longitude |-> 122,
       population |-> Some(2), admin1 |-> "Oregon",
       admin2 |-> Some("Multnomah County"), admin3 |-> None, admin4 |-> None],
      [name |-> "Portland", latitude |-> 43, longitude |-> 70,
       population |-> Some(1), admin1 |-> "Maine",
       admin2 |-> Some("Cumberland County"), admin3 |-> None,
       admin4 |-> Some("Portland")],
      [name |-> "Portland", latitude |-> 38, longitude |-> 141,
       population |-> None, admin1 |-> "Victoria",
       admin2 |-> None, admin3 |-> Some("Glenelg"), admin4 |-> None] }

Coord(l) == <<l.latitude, l.longitude>>
Coords == {Coord(it) : it \in GeoItems}

RECURSIVE SeqsUpTo(_, _)
SeqsUpTo(S, n) ==
    IF n = 0 THEN {<<>>}
    ELSE LET shorter == SeqsUpTo(S, n - 1)
         IN  shorter \cup {Append(s, x) : s \in {t \in shorter : Len(t) = n - 1}, x \in S}

GeoKinds == {"transport", "status", "json", "ok"}
FcKinds == {"transport", "status", "json", "ok"}

\* a qualified_name that emits a segment for an absent level too
qualified_name_empty_segments(item) ==
    LET seg(a) == IF a # None THEN <<a[1], ", ">> ELSE <<", ">>
    IN  seg(item.admin4) \o seg(item.admin3) \o seg(item.admin2) \o <<item.admin1>>

qualified_name(item) ==
    LET n0 == <<>>
        n4 == IF item.admin4 # None THEN n0 \o <<item.admin4[1], ", ">> ELSE n0
        n3 == IF item.admin3 # None THEN n4 \o <<item.admin3[1], ", ">> ELSE n4
        n2 == IF item.admin2 # None THEN n3 \o <<item.admin2[1], ", ">> ELSE n3
    IN  n2 \o <<item.admin1>>

Location(item) ==
    [name |-> item.name,
     latitude |-> item.latitude,
     longitude |-> item.longitude,
     population |-> item.population,
     qualified_name |-> qualified_name(item)]

\* PartialOrd of Option<u32>: None is less than every Some
partial_cmp(a, b) ==
    IF a = None
      THEN IF b = None THEN "Equal" ELSE "Less"
    ELSE IF b = None THEN "Greater"
    ELSE IF a[1] < b[1] THEN "Less"
    ELSE IF a[1] > b[1] THEN "Greater"
    ELSE "Equal"

\* a comparison closure with a and b the other way round
by_population_ascending(a, b) == partial_cmp(a.population, b.population)

\* the closure given to sort_by: compares b against a
by_population(a, b) == partial_cmp(b.population, a.population)

\* slice::sort_by is a stable sort: x goes after every element that does
\* not compare Greater than it
RECURSIVE insert_sorted(_, _)
insert_sorted(s, x) ==
    IF s = <<>> THEN <<x>>
    ELSE IF by_population(x, Head(s)) = "Less" THEN <<x>> \o s
    ELSE <<Head(s)>> \o insert_sorted(Tail(s), x)

RECURSIVE sort_by(_)
sort_by(s) ==
    IF s = <<>> THEN <<>>
    ELSE insert_sorted(sort_by(SubSeq(s, 1, Len(s) - 1)), s[Len(s)])

\* fetch_locations after the body is decoded: map to Location, then sort
massage(results) == sort_by([k \in 1..Len(results) |-> Location(results[k])])

\* ----------------------------------------------------- the outbound calls
GeoCall(q) ==
    [svc |-> "geocoding", name |-> q.city, count |-> q.count,
     latitude |-> 0, longitude |-> 0]
ForecastCall(l) ==
    [svc |-> "forecast", name |-> "", count |-> 0,
     latitude |-> l.latitude, longitude |-> l.longitude]

\* forecast requests in which every location is asked a second time
forecast_calls_twice(locs) ==
    [k \in 1..Len(locs) |-> ForecastCall(locs[k])]
        \o [k \in 1..Len(locs) |-> ForecastCall(locs[k])]

\* the forecast requests sent by the first poll of the futures: one per
\* location, in the order of the vec
forecast_calls(locs) == [k \in 1..Len(locs) |-> ForecastCall(locs[k])]

\* body of the forecast service for a coordinate pair
ForecastBody(c) ==
    [current_units |-> [temperature_2m |-> "C", rain |-> "mm"],
     current |-> [temperature_2m |-> c[1] - 30, rain |-> c[2] - 70]]

Weather(contents) ==
    [temp |-> contents.current.temperature_2m,
     temp_unit |-> contents.current_units.temperature_2m,
     rain |-> contents.current.rain,
     rain_unit |-> contents.current_units.rain]

\* ------------------------------------------------------------ the response
\* a downcast that looks at the outermost context only
downcast_outermost_only(chain) ==
    IF chain # <<>> /\ chain[1].ty = "StatusCode" THEN Some(chain[1].code) ELSE None

\* Error::downcast_ref::<StatusCode>: the outermost StatusCode found in the
\* context chain, if any
downcast_ref(chain) ==
    LET at == {k \in 1..Len(chain) : chain[k].ty = "StatusCode"}
    IN  IF at = {} THEN None
        ELSE Some(chain[CHOOSE k \in at : \A j \in at : k <= j].code)

\* serde_json::to_string of the vec of items: a json array, element k being
\* the object of item k
to_string(items) == [kind |-> "json", array |-> items, chain |-> <<>>]
\* format!("{e:?}"): the whole context chain
debug_repr(chain) == [kind |-> "debug", array |-> <<>>, chain |-> chain]

\* a main that falls back to 503
main_503(res) ==
    IF res.ok
      THEN [status |-> OK, content_type |-> Some("application/json"),
            body |-> res.val]
    ELSE [status |-> IF downcast_ref(res.err) = None
                       THEN 503
                       ELSE downcast_ref(res.err)[1],
          content_type |-> None,
          body |-> debug_repr(res.err)]

\* main: package the result of handle into the http response
main(res) ==
    IF res.ok
      THEN [status |-> OK, content_type |-> Some("application/json"),
            body |-> res.val]
    ELSE [status |-> IF downcast_ref(res.err) = None
                       THEN INTERNAL_SERVER_ERROR
                       ELSE downcast_ref(res.err)[1],
          content_type |-> None,
          body |-> debug_repr(res.err)]

\* ------------------------------------------------------- handle, first poll
\* handle up to its first suspension point: the method check and get_query.
\* parsed records whether get_query was called.
\* a prefix of handle that resolves the query before it checks the method
handle_prefix_query_first(r) ==
    LET q == Context(get_query(r), Msg("getting location name"))
    IN  IF q.ok /\ r.method # "GET"
          THEN [parsed |-> TRUE,
                query |-> Err(<<StatusCtx(METHOD_NOT_ALLOWED),
                                MsgArg("unsupported method", <<r.method>>)>>)]
        ELSE [parsed |-> TRUE, query |-> q]

handle_prefix(r) ==
    IF r.method # "GET"
      THEN [parsed |-> FALSE,
            query |-> Err(<<StatusCtx(METHOD_NOT_ALLOWED),
                            MsgArg("unsupported method", <<r.method>>)>>)]
    ELSE [parsed |-> TRUE,
          query |-> Context(get_query(r), Msg("getting location name"))]

\* ------------------------------------------------------------- the fan-out
FetchPending(l) == [st |-> "send", item |-> None, err |-> <<>>]

\* a send stage whose context names the location by its plain name
fetch_send_plain_name(l, kind) ==
    LET ctx == MsgArg("fetching weather for", <<l.name>>)
    IN  CASE kind = "transport" ->
               [st |-> "err", item |-> None,
                err |-> <<ctx, Msg("transport error")>>]
          [] kind = "status" ->
               [st |-> "err", item |-> None,
                err |-> <<ctx, MsgArg("forecast api returned status", <<"500">>)>>]
          [] OTHER -> [st |-> "body", item |-> None, err |-> <<>>]

\* the future built for one location (handle, the closure given to map):
\* outcome of the send stage of fetch_weather
fetch_send(l, kind) ==
    LET ctx == MsgArg("fetching weather for", l.qualified_name)
    IN  CASE kind = "transport" ->
               [st |-> "err", item |-> None,
                err |-> <<ctx, Msg("transport error")>>]
          [] kind = "status" ->
               [st |-> "err", item |-> None,
                err |-> <<ctx, MsgArg("forecast api returned status", <<"500">>)>>]
          [] OTHER -> [st |-> "body", item |-> None, err |-> <<>>]

\* outcome of the body stage of fetch_weather and of the closure's Ok
fetch_body(l, kind) ==
    LET ctx == MsgArg("fetching weather for", l.qualified_name)
    IN  IF kind = "json"
          THEN [st |-> "err", item |-> None,
                err |-> <<ctx, Msg("json error")>>]
        ELSE [st |-> "ok",
              item |-> Some([location |-> l,
                             weather |-> Weather(ForecastBody(Coord(l)))]),
              err |-> <<>>]

IsPending(f) == f.st \in {"send", "body"}

\* a join that waits for every future and keeps the successes
try_join_partial(f, i, ord) ==
    IF \E k \in 1..Len(f) : IsPending(f[k])
      THEN [ready |-> FALSE, res |-> Err(<<>>)]
    ELSE LET oks == SelectSeq([k \in 1..Len(f) |-> f[k]], LAMBDA x : x.st = "ok")
         IN  [ready |-> TRUE, res |-> Ok([k \in 1..Len(oks) |-> oks[k].item[1]])]

\* a join that yields the items in completion order
try_join_unordered(f, i, ord) ==
    IF i > 0 /\ f[i].st = "err"
      THEN [ready |-> TRUE, res |-> Err(f[i].err)]
    ELSE IF \A k \in 1..Len(f) : f[k].st = "ok"
      THEN [ready |-> TRUE, res |-> Ok([k \in 1..Len(ord) |-> f[ord[k]].item[1]])]
    ELSE [ready |-> FALSE, res |-> Err(<<>>)]

\* a join that reports the first failure only once every future resolved
try_join_wait_all(f, i, ord) ==
    IF \E k \in 1..Len(f) : IsPending(f[k])
      THEN [ready |-> FALSE, res |-> Err(<<>>)]
    ELSE IF \E k \in 1..Len(ord) : f[ord[k]].st = "err"
      THEN LET k1 == CHOOSE k \in 1..Len(ord) :
                        /\ f[ord[k]].st = "err"
                        /\ \A j \in 1..(k - 1) : f[ord[j]].st # "err"
           IN  [ready |-> TRUE, res |-> Err(f[ord[k1]].err)]
    ELSE [ready |-> TRUE, res |-> Ok([k \in 1..Len(f) |-> f[k].item[1]])]

\* a join that never completes on an empty vec
try_join_empty_hangs(f, i, ord) ==
    IF i > 0 /\ f[i].st = "err"
      THEN [ready |-> TRUE, res |-> Err(f[i].err)]
    ELSE IF Len(f) > 0 /\ \A k \in 1..Len(f) : f[k].st = "ok"
      THEN [ready |-> TRUE, res |-> Ok([k \in 1..Len(f) |-> f[k].item[1]])]
    ELSE [ready |-> FALSE, res |-> Err(<<>>)]

\* TryJoin::try_join on the vec of futures, polled after future i resolved
\* (i = 0: the first poll).  ord is the completion order so far.
try_join(f, i, ord) ==
    IF i > 0 /\ f[i].st = "err"
      THEN [ready |-> TRUE, res |-> Err(f[i].err)]
    ELSE IF \A k \in 1..Len(f) : f[k].st = "ok"
      THEN [ready |-> TRUE, res |-> Ok([k \in 1..Len(f) |-> f[k].item[1]])]
    ELSE [ready |-> FALSE, res |-> Err(<<>>)]

\* a join whose pending futures stay in flight after it completed
drop_pending_keep(f) == f

\* the futures still pending when the TryJoin future is dropped
drop_pending(f) ==
    [k \in 1..Len(f) |->
        IF IsPending(f[k]) THEN [f[k] EXCEPT !.st = "cancelled"] ELSE f[k]]

\* handle from the join on: the rest of handle and main
handle_tail(joined) ==
    IF joined.ok THEN Ok(to_string(joined.val)) ELSE joined

\* ----------------------------------------------------------------- actions
TypeOK ==
    /\ req \in Requests
    /\ pc \in {"start", "geo_send", "geo_body", "join", "responded"}
    /\ parsed \in BOOLEAN
    /\ nresp \in 0..1
    /\ runs \in 1..MaxRuns

InitRun(r, g, f) ==
    /\ req = r
    /\ geoAnswer = g
    /\ fcAnswer = f
    /\ pc = "start"
    /\ parsed = FALSE
    /\ query = None
    /\ locations = <<>>
    /\ fetches = <<>>
    /\ order = <<>>
    /\ calls = <<>>
    /\ response = None
    /\ nresp = 0
    /\ prev = None
    /\ runs = 1

GeoAnswers(items, n) ==
    {[kind |-> k, results |-> <<>>] : k \in GeoKinds \ {"ok"}}
      \cup {[kind |-> "ok", results |-> s] : s \in SeqsUpTo(items, n)}

\* The upstream services are stable: the answer to a call is fixed when the
\* call is first made (geoAnswer is None, fcAnswer has no entry, before).
Init == \E r \in Requests : InitRun(r, None, <<>>)

\* the answers of the forecast service once the coordinates cs were asked
FcExtensions(cs) ==
    LET new == cs \ DOMAIN fcAnswer
    IN  {[c \in DOMAIN fcAnswer \cup new |->
            IF c \in DOMAIN fcAnswer THEN fcAnswer[c] ELSE fa[c]] :
         fa \in [new -> FcKinds]}

\* main answers: responder.respond(resp)
Respond(res) ==
    /\ response' = Some(main(res))
    /\ nresp' = nresp + 1
    /\ pc' = "responded"

\* a first poll that sends the geocoding request before it looks at the
\* outcome of the method check and of get_query
HandleStartSendsFirst ==
    /\ pc = "start"
    /\ LET p == handle_prefix(req)
           q == IF p.query.ok THEN p.query.val ELSE DefaultQuery
       IN  /\ parsed' = p.parsed
           /\ calls' = Append(calls, GeoCall(q))
           /\ IF geoAnswer = None
                THEN \E g \in GeoAnswers(GeoItems, MaxResults) : geoAnswer' = Some(g)
              ELSE UNCHANGED geoAnswer
           /\ IF p.query.ok
                THEN /\ query' = Some(p.query.val)
                     /\ pc' = "geo_send"
                     /\ UNCHANGED <<response, nresp>>
              ELSE /\ Respond(p.query)
                   /\ UNCHANGED query
    /\ UNCHANGED <<req, fcAnswer, locations, fetches, order, prev, runs>>

\* first poll of main: handle runs to the send of the geocoding request
HandleStart ==
    /\ pc = "start"
    /\ LET p == handle_prefix(req)
       IN  /\ parsed' = p.parsed
           /\ IF p.query.ok
                THEN /\ query' = Some(p.query.val)
                     /\ calls' = Append(calls, GeoCall(p.query.val))
                     /\ pc' = "geo_send"
                     /\ IF geoAnswer = None
                          THEN \E g \in GeoAnswers(GeoItems, MaxResults) :
                                  geoAnswer' = Some(g)
                        ELSE UNCHANGED geoAnswer
                     /\ UNCHANGED <<response, nresp>>
              ELSE /\ Respond(p.query)
                   /\ UNCHANGED <<query, calls, geoAnswer>>
    /\ UNCHANGED <<req, fcAnswer, locations, fetches, order, prev, runs>>

\* Client::send of the geocoding request resolves
GeoSendResolve ==
    /\ pc = "geo_send"
    /\ CASE geoAnswer[1].kind = "transport" ->
              /\ Respond(Err(<<Msg("searching for location"),
                               Msg("transport error")>>))
         [] geoAnswer[1].kind = "status" ->
              /\ Respond(Err(<<Msg("searching for location"),
                               MsgArg("geocoding-api returned status", <<"503">>)>>))
         [] OTHER ->
              /\ pc' = "geo_body"
              /\ UNCHANGED <<response, nresp>>
    /\ UNCHANGED <<req, geoAnswer, fcAnswer, parsed, query, locations, fetches,
                   order, calls, prev, runs>>

\* the geocoding body resolves; on success the locations are ranked, the
\* futures are built and try_join is polled for the first time, which sends
\* every forecast request.  locs, f and j are the values the handler binds
\* once: the sorted locations, the vec of futures and the outcome of the poll.
GeoBodyResolve ==
    /\ pc = "geo_body"
    /\ IF geoAnswer[1].kind = "json"
         THEN /\ Respond(Err(<<Msg("searching for location"),
                               Msg("parsing geocoding-api response"),
                               Msg("json error")>>))
              /\ UNCHANGED <<locations, fetches, calls, fcAnswer>>
       ELSE \E locs \in {massage(geoAnswer[1].results)} :
            \E f \in {[k \in 1..Len(locs) |-> FetchPending(locs[k])]} :
            \E j \in {try_join(f, 0, <<>>)} :
                /\ locations' = locs
                /\ fetches' = f
                /\ calls' = calls \o forecast_calls(locs)
                /\ fcAnswer' \in FcExtensions({Coord(locs[k]) : k \in 1..Len(locs)})
                /\ IF j.ready
                     THEN Respond(handle_tail(j.res))
                   ELSE /\ pc' = "join"
                        /\ UNCHANGED <<response, nresp>>
    /\ UNCHANGED <<req, geoAnswer, parsed, query, order, prev, runs>>

\* try_join is polled after future i made progress to f_i
JoinPoll(i, f_i) ==
    LET f == [fetches EXCEPT ![i] = f_i]
        ord == IF IsPending(f_i) THEN order ELSE Append(order, i)
        j == try_join(f, i, ord)
    IN  /\ order' = ord
        /\ IF j.ready
             THEN /\ fetches' = drop_pending(f)
                  /\ Respond(handle_tail(j.res))
           ELSE /\ fetches' = f
                /\ pc' = "join"
                /\ UNCHANGED <<response, nresp>>

\* Client::send of the forecast request of location i resolves
FetchSendResolve(i) ==
    /\ pc = "join"
    /\ fetches[i].st = "send"
    /\ JoinPoll(i, fetch_send(locations[i], fcAnswer[Coord(locations[i])]))
    /\ UNCHANGED <<req, geoAnswer, fcAnswer, parsed, query, locations, calls,
                   prev, runs>>

\* the forecast body of location i resolves
FetchBodyResolve(i) ==
    /\ pc = "join"
    /\ fetches[i].st = "body"
    /\ JoinPoll(i, fetch_body(locations[i], fcAnswer[Coord(locations[i])]))
    /\ UNCHANGED <<req, geoAnswer, fcAnswer, parsed, query, locations, calls,
                   prev, runs>>

\* the same request is served again by a fresh instance, same upstream
Rerun ==
    /\ pc = "responded"
    /\ runs < MaxRuns
    /\ prev' = Some([response |-> response[1], order |-> order])
    /\ runs' = runs + 1
    /\ pc' = "start"
    /\ parsed' = FALSE
    /\ query' = None
    /\ locations' = <<>>
    /\ fetches' = <<>>
    /\ order' = <<>>
    /\ calls' = <<>>
    /\ response' = None
    /\ nresp' = 0
    /\ UNCHANGED <<req, geoAnswer, fcAnswer>>

Next ==
    \/ HandleStart
    \/ GeoSendResolve
    \/ GeoBodyResolve
    \/ \E i \in 1..Len(fetches) : FetchSendResolve(i)
    \/ \E i \in 1..Len(fetches) : FetchBodyResolve(i)
    \/ Rerun

Spec == Init /\ [][Next]_vars

\* --------------------------------------------- the liveness specification
\* One run of the weather handler in which the runtime polls the task and
\* every outbound call that is in flight eventually resolves.
NextLive ==
    \/ HandleStart
    \/ GeoSendResolve
    \/ GeoBodyResolve
    \/ \E i \in 1..Len(fetches) : FetchSendResolve(i)
    \/ \E i \in 1..Len(fetches) : FetchBodyResolve(i)

\* as long as the task can be polled or a call is in flight, one of them
\* eventually makes its step: this is all that "every outbound call
\* eventually resolves" is needed for
Fairness == WF_vars(NextLive)

SpecLive == Init /\ [][NextLive]_vars /\ Fairness

\* ---------------------------------------------- the ranking specification
\* fetch_locations applied to every short result list over RankItems
RankItems ==
    {[name |-> n, latitude |-> 0, longitude |-> 0, population |-> p,
      admin1 |-> "Oregon", admin2 |-> None, admin3 |-> None, admin4 |-> None] :
        n \in {"Portland", "Salem"},
        p \in {None, Some(0), Some(1), Some(2)}}

InitRank ==
    \E s \in SeqsUpTo(RankItems, MaxRank) :
        InitRun([method |-> "GET", query |-> None],
                Some([kind |-> "ok", results |-> s]),
                [c \in {<<0, 0>>} |-> "ok"])

NextRank ==
    \/ HandleStart
    \/ GeoSendResolve
    \/ GeoBodyResolve

SpecRank == InitRank /\ [][NextRank]_vars

\* ----------------------------------------- the qualified name specification
\* fetch_locations applied to results with every pattern of admin names
NameItems ==
    {[name |-> "Portland", latitude |-> 0, longitude |-> 0, population |-> None,
      admin1 |-> a1, admin2 |-> a2, admin3 |-> a3, admin4 |-> a4] :
        a1 \in {"Oregon", "Maine"},
        a2 \in {None, Some("Multnomah County"), Some("Cumberland County")},
        a3 \in {None, Some("Portland West"), Some("Portland East")},
        a4 \in {None, Some("Downtown")}}

InitName ==
    \E s \in SeqsUpTo(NameItems, MaxName) :
        InitRun([method |-> "GET", query |-> None],
                Some([kind |-> "ok", results |-> s]),
                [c \in {<<0, 0>>} |-> "ok"])

NextName ==
    \/ HandleStart
    \/ GeoSendResolve
    \/ GeoBodyResolve

SpecName == InitName /\ [][NextName]_vars

\* ------------------------------------------------- the hmac-auth gateway
\* hmac-auth/src/main.rs.  The request is in req, the answer in response.
\* A header value or hex string is the sequence of its characters.
UNAUTHORIZED == 401

HexDigits ==
    [c \in {"0", "1", "2", "3", "4", "5", "6", "7", "8", "9",
            "a", "b", "c", "d", "e", "f"} |->
        CASE c = "0" -> 0 [] c = "1" -> 1 [] c = "2" -> 2 [] c = "3" -> 3
          [] c = "4" -> 4 [] c = "5" -> 5 [] c = "6" -> 6 [] c = "7" -> 7
          [] c = "8" -> 8 [] c = "9" -> 9 [] c = "a" -> 10 [] c = "b" -> 11
          [] c = "c" -> 12 [] c = "d" -> 13 [] c = "e" -> 14 [] c = "f" -> 15]

\* hex::decode: an odd length or a character that is no hex digit fails,
\* otherwise each pair of digits is one byte
hex_decode(s) ==
    IF Len(s) % 2 # 0
      THEN Err(<<Msg("Odd number of digits")>>)
    ELSE IF \E k \in 1..Len(s) : s[k] \notin DOMAIN HexDigits
      THEN Err(<<Msg("Invalid character")>>)
    ELSE Ok([k \in 1..(Len(s) \div 2) |->
                16 * HexDigits[s[2 * k - 1]] + HexDigits[s[2 * k]]])

\* secret_key with SECRET_KEY unset at build time
secret_key ==
    Context(hex_decode(<<"1", "2", "3", "4", "5", "6", "7", "8">>),
            Msg("decoding secret key"))

AuthUris == {"/", "/admin"}

\* Hmac<Sha256> of the uri under the key, finalized: the tag is one byte
\* here, a different one for each uri of the model
hmac_tag(key, uri) ==
    IF key = <<18, 52, 86, 120>>
      THEN (IF uri = "/" THEN <<16>> ELSE <<170>>)
    ELSE (IF uri = "/" THEN <<1>> ELSE <<160>>)

\* a comparison that stops at the end of the shorter slice
verify_slice_prefix(tag, sig) ==
    IF \A k \in 1..Len(sig) : k <= Len(tag) /\ sig[k] = tag[k]
      THEN Ok(<<>>)
    ELSE Err(<<Msg("MAC tag mismatch")>>)

\* Mac::verify_slice: the slice must be the whole tag
verify_slice(tag, sig) ==
    IF sig = tag THEN Ok(<<>>) ELSE Err(<<Msg("MAC tag mismatch")>>)

request_signature(r) ==
    IF r.signature = None
      THEN Err(<<StatusCtx(BAD_REQUEST), Msg("missing Signature header")>>)
    ELSE Context(hex_decode(r.signature[1]), StatusCtx(BAD_REQUEST))

\* a handle that rejects the method before it looks at the signature
hmac_handle_method_first(r) ==
    IF r.method # "GET"
      THEN Err(<<StatusCtx(METHOD_NOT_ALLOWED),
                 MsgArg("unsupported method", <<r.method>>)>>)
    ELSE LET signature == request_signature(r)
             key == Context(secret_key, Msg("calucating secret key"))
         IN  IF ~signature.ok THEN signature
             ELSE IF ~key.ok THEN key
             ELSE LET v == Context(verify_slice(hmac_tag(key.val, r.uri), signature.val),
                                   StatusCtx(UNAUTHORIZED))
                  IN  IF ~v.ok THEN v ELSE Ok(<<"authorized">>)

\* handle of the gateway
hmac_handle(r) ==
    LET signature == request_signature(r)
        key == Context(secret_key, Msg("calucating secret key"))
    IN  IF ~signature.ok THEN signature
        ELSE IF r.method # "GET"
          THEN Err(<<StatusCtx(METHOD_NOT_ALLOWED),
                     MsgArg("unsupported method", <<r.method>>)>>)
        ELSE IF ~key.ok THEN key
        ELSE LET v == Context(verify_slice(hmac_tag(key.val, r.uri), signature.val),
                              StatusCtx(UNAUTHORIZED))
             IN  IF ~v.ok THEN v ELSE Ok(<<"authorized">>)

\* main of the gateway
hmac_main(res) ==
    IF res.ok
      THEN [status |-> OK, content_type |-> None,
            body |-> [kind |-> "text", array |-> res.val, chain |-> <<>>]]
    ELSE [status |-> IF downcast_ref(res.err) = None
                       THEN INTERNAL_SERVER_ERROR
                       ELSE downcast_ref(res.err)[1],
          content_type |-> None,
          body |-> debug_repr(res.err)]

SigChars == {"0", "1", "a", "g"}
AuthRequests ==
    {[method |-> m, uri |-> u, signature |-> s] :
        m \in Methods, u \in AuthUris,
        s \in {None} \cup {Some(x) : x \in SeqsUpTo(SigChars, MaxSigLen)}}

InitAuth == \E r \in AuthRequests : InitRun(r, None, <<>>)

\* the gateway serves the request: handle is synchronous, main responds
AuthServe ==
    /\ pc = "start"
    /\ response' = Some(hmac_main(hmac_handle(req)))
    /\ nresp' = nresp + 1
    /\ pc' = "responded"
    /\ UNCHANGED <<req, geoAnswer, fcAnswer, parsed, query, locations, fetches,
                   order, calls, prev, runs>>

NextAuth == AuthServe

SpecAuth == InitAuth /\ [][NextAuth]_vars

\* ---------------------------------------------------- the filter services
\* jaq/src/main.rs and the root package src/main.rs.  req says which of the
\* two serves and holds the request body, the sequence of its json tokens
\* (None: the body could not be read).
JsonTokens == {"[", "]", ",", "1", "2", "null"}

Num(t) == [ty |-> "num", n |-> t, elems |-> <<>>]
Null == [ty |-> "null", n |-> "", elems |-> <<>>]
Arr(es) == [ty |-> "arr", n |-> "", elems |-> es]

ParseFail == [ok |-> FALSE, val |-> Null, rest |-> <<>>]

\* Val::parse on the lexer: one json value from the front of the tokens
RECURSIVE parse_val(_)
RECURSIVE parse_elems(_, _)
parse_val(ts) ==
    IF ts = <<>> THEN ParseFail
    ELSE CASE Head(ts) \in {"1", "2"} ->
                [ok |-> TRUE, val |-> Num(Head(ts)), rest |-> Tail(ts)]
           [] Head(ts) = "null" ->
                [ok |-> TRUE, val |-> Null, rest |-> Tail(ts)]
           [] Head(ts) = "[" ->
                IF Len(ts) >= 2 /\ ts[2] = "]"
                  THEN [ok |-> TRUE, val |-> Arr(<<>>), rest |-> SubSeq(ts, 3, Len(ts))]
                ELSE parse_elems(Tail(ts), <<>>)
           [] OTHER -> ParseFail

parse_elems(ts, acc) ==
    LET v == parse_val(ts)
    IN  IF ~v.ok \/ v.rest = <<>> THEN ParseFail
        ELSE IF Head(v.rest) = "]"
          THEN [ok |-> TRUE, val |-> Arr(Append(acc, v.val)), rest |-> Tail(v.rest)]
        ELSE IF Head(v.rest) = ","
          THEN parse_elems(Tail(v.rest), Append(acc, v.val))
        ELSE ParseFail

\* hifijson::token::Lex::exactly_one: one value and nothing after it
exactly_one(ts) ==
    LET v == parse_val(ts)
    IN  IF v.ok /\ v.rest = <<>> THEN Ok(v.val)
        ELSE Err(<<Msg("hifijson error")>>)

\* the filter program .[] run on a value, its outputs collected
filter_run(v) ==
    IF v.ty = "arr" THEN Ok(v.elems)
    ELSE Err(<<MsgArg("filter errors", <<"cannot iterate over", v.ty>>)>>)

\* Display of a Val: its json text
RECURSIVE display(_)
RECURSIVE display_elems(_)
display(v) ==
    CASE v.ty = "num" -> <<v.n>>
      [] v.ty = "null" -> <<"null">>
      [] OTHER -> <<"[">> \o display_elems(v.elems) \o <<"]">>

display_elems(es) ==
    IF es = <<>> THEN <<>>
    ELSE IF Len(es) = 1 THEN display(es[1])
    ELSE display(es[1]) \o <<",">> \o display_elems(Tail(es))

\* handle of jaq/src/main.rs: the first result of the filter
jaq_handle(body) ==
    IF body = None THEN Err(<<Msg("reading body")>>)
    ELSE LET body_val == Context(exactly_one(body[1]), Msg("parsing body json"))
         IN  IF ~body_val.ok THEN body_val
             ELSE LET vals == filter_run(body_val.val)
                  IN  IF ~vals.ok THEN vals
                      ELSE IF vals.val = <<>>
                        THEN Err(<<Msg("one result from filter")>>)
                      ELSE Ok(display(vals.val[1]))

\* handle of src/main.rs: the array of all results of the filter
root_handle(body) ==
    IF body = None THEN Err(<<Msg("reading body")>>)
    ELSE LET body_val == Context(exactly_one(body[1]), Msg("parsing body json"))
         IN  IF ~body_val.ok THEN body_val
             ELSE LET vals == filter_run(body_val.val)
                  IN  IF ~vals.ok THEN vals
                      ELSE Ok(display(Arr(vals.val)))

\* main of both filter services
filter_main(res) ==
    IF res.ok
      THEN [status |-> OK, content_type |-> Some("application/json"),
            body |-> [kind |-> "json", array |-> res.val, chain |-> <<>>]]
    ELSE [status |-> INTERNAL_SERVER_ERROR, content_type |-> None,
          body |-> debug_repr(res.err)]

FilterServices == {"jaq", "root"}
FilterRequests ==
    {[service |-> s, body |-> b] :
        s \in FilterServices,
        b \in {None} \cup {Some(ts) : ts \in SeqsUpTo(JsonTokens, MaxBody)}}

InitFilter == \E r \in FilterRequests : InitRun(r, None, <<>>)

\* the filter service serves the request
FilterServe ==
    /\ pc = "start"
    /\ response' = Some(filter_main(IF req.service = "jaq"
                                      THEN jaq_handle(req.body)
                                    ELSE root_handle(req.body)))
    /\ nresp' = nresp + 1
    /\ pc' = "responded"
    /\ UNCHANGED <<req, geoAnswer, fcAnswer, parsed, query, locations, fetches,
                   order, calls, prev, runs>>

NextFilter == FilterServe

SpecFilter == InitFilter /\ [][NextFilter]_vars

\* ------------------------------------------------------------ properties
Responded == pc = "responded"
Resp == response[1]
N == Len(locations)
SomeFetchFailed == \E i \in 1..Len(fetches) : fetches[i].st = "err"

\* C1: fail-fast join.  Whenever at least one of the N >= 1 fetch_weather
\* calls has failed, a response that is sent is a failure: its status is not
\* 200 and its body is not a json list of the locations that succeeded.
C1_FailFast ==
    (Responded /\ SomeFetchFailed)
        => (Resp.status # OK /\ Resp.body.kind # "json" /\ Resp.body.array = <<>>)

\* C1 witness: a request answered with a failure although one fetch failed
\* and another one succeeded
C1_Witness ==
    /\ Responded
    /\ N >= 2
    /\ \E i, k \in 1..N : fetches[i].st = "err" /\ fetches[k].st = "ok"
    /\ Resp.status = INTERNAL_SERVER_ERROR

\* C2: order preservation.  Whenever the response is a 200 after the fan-out
\* the array has exactly N items and item i pairs the i-th ranked location
\* with the weather the forecast service gives for that location's
\* coordinates, whatever the completion order was.
C2_OrderPreserved ==
    (Responded /\ Resp.status = OK)
        => /\ Len(Resp.body.array) = N
           /\ \A i \in 1..N :
                /\ Resp.body.array[i].location = locations[i]
                /\ Resp.body.array[i].weather.temp = locations[i].latitude - 30
                /\ Resp.body.array[i].weather.rain = locations[i].longitude - 70

\* C2 witness: a 200 whose fetches for distinct locations completed in an
\* order other than the ranking order
C2_Witness ==
    /\ Responded
    /\ Resp.status = OK
    /\ N >= 2
    /\ \E a, b \in 1..N :
         a < b /\ order[a] > order[b] /\ locations[order[a]] # locations[order[b]]

\* C3: early completion on failure.  In the step in which a fetch_weather
\* call fails, the join completes with that failure and the response is
\* sent, whether or not sibling fetches are still pending.
C3_EarlyCompletion ==
    [][\A i \in 1..Len(fetches) :
          (pc = "join" /\ IsPending(fetches[i]) /\ fetches'[i].st = "err")
              => /\ pc' = "responded"
                 /\ response'[1].status # OK
                 /\ response'[1].body.chain = fetches'[i].err]_vars

\* C3 witness: the response was sent on a failure while a sibling fetch was
\* still in flight
C3_Witness ==
    /\ Responded
    /\ \E i, k \in 1..N : fetches[i].st = "err" /\ fetches[k].st = "cancelled"

\* C4: location ranking.  Once the geocoding body is decoded the location
\* list is the upstream list stably sorted by population descending, unknown
\* last: the entries of each population are those of the upstream list in
\* upstream order (so the list is a permutation), known populations do not
\* increase, and no known population follows an unknown one.
GeoDecoded ==
    /\ query # None
    /\ geoAnswer # None
    /\ geoAnswer[1].kind = "ok"
    /\ pc \in {"join", "responded"}

C4_Ranking ==
    GeoDecoded =>
        LET res == geoAnswer[1].results
            up == [k \in 1..Len(res) |-> Location(res[k])]
            pops == {up[k].population : k \in 1..Len(up)}
        IN  /\ Len(locations) = Len(up)
            /\ \A p \in pops :
                 SelectSeq(locations, LAMBDA l : l.population = p)
                    = SelectSeq(up, LAMBDA l : l.population = p)
            /\ \A i, j \in 1..Len(locations) :
                 i < j =>
                    /\ (locations[i].population # None /\ locations[j].population # None)
                          => locations[i].population[1] >= locations[j].population[1]
                    /\ locations[i].population = None => locations[j].population = None

\* C4 witness: a ranked list that differs from the upstream list and holds
\* two entries of equal population with different names and an unknown one
C4_Witness ==
    /\ GeoDecoded
    /\ locations # [k \in 1..Len(geoAnswer[1].results) |-> Location(geoAnswer[1].results[k])]
    /\ \E i, j, k \in 1..Len(locations) :
         /\ i < j
         /\ locations[i].population = locations[j].population
         /\ locations[i].population # None
         /\ locations[i].name # locations[j].name
         /\ locations[k].population = None

\* C5: the method check comes first.  A request whose method is not GET
\* never has its query parsed and never causes an outbound call, and the
\* response it gets is a 405 whatever its query string.
C5_MethodFirst ==
    req.method # "GET"
        => /\ ~parsed
           /\ calls = <<>>
           /\ pc \in {"start", "responded"}
           /\ Responded => Resp.status = METHOD_NOT_ALLOWED

\* C5 witness: a 405 for a POST whose query string has count=0
C5_Witness ==
    /\ Responded
    /\ req.method = "POST"
    /\ req.query # None
    /\ req.query[1].count = Some("0")
    /\ Resp.status = METHOD_NOT_ALLOWED

\* C6: default query.  A GET request without a query string resolves,
\* without error, to place Portland and count 10, and that is what the
\* geocoding service is asked.
C6_DefaultQuery ==
    (req.method = "GET" /\ req.query = None /\ pc # "start")
        => /\ query = Some([city |-> "Portland", count |-> 10])
           /\ calls # <<>>
           /\ calls[1].svc = "geocoding"
           /\ calls[1].name = "Portland"
           /\ calls[1].count = 10

\* C6 witness: the geocoding call of a GET without query string is in flight
C6_Witness ==
    /\ req.method = "GET"
    /\ req.query = None
    /\ pc = "geo_send"
    /\ parsed

\* C7: input errors map to 400.  A GET request whose query string is present
\* and lacks the city, or has a count that is not a number, or has count 0,
\* is answered with 400.
Undecodable(qs) == qs.city = None \/ qs.count = Some("x")
CountZero(qs) == qs.city # None /\ qs.count = Some("0")

C7_InputErrors ==
    (pc # "start" /\ req.method = "GET" /\ req.query # None
        /\ (Undecodable(req.query[1]) \/ CountZero(req.query[1])))
        => /\ Responded
           /\ Resp.status = BAD_REQUEST
           /\ calls = <<>>

\* C7 witness: a 400 whose error carries the context added by handle outside
\* the status context
C7_Witness ==
    /\ Responded
    /\ req.method = "GET"
    /\ req.query # None
    /\ CountZero(req.query[1])
    /\ Resp.status = BAD_REQUEST
    /\ Resp.body.chain[1] = Msg("getting location name")

\* C8: status mapping.  A failure response has the status attached in the
\* error's context chain when there is one (400 or 405) and 500 otherwise;
\* every failure of the geocoding stage or of a forecast fetch gives 500.
StatusKinds(chain) ==
    {chain[k].code : k \in {j \in 1..Len(chain) : chain[j].ty = "StatusCode"}}
GeoFailed == query # None /\ geoAnswer # None /\ geoAnswer[1].kind # "ok"

C9_ZeroMatches ==
    (GeoDecoded /\ geoAnswer[1].results = <<>>)
        => /\ Responded
           /\ Resp.status = OK
           /\ Resp.body.kind = "json"
           /\ Resp.body.array = <<>>
           /\ fetches = <<>>
           /\ \A k \in 1..Len(calls) : calls[k].svc # "forecast"

\* C9 witness: a 200 for an empty result list
C9_Witness ==
    /\ Responded
    /\ GeoDecoded
    /\ geoAnswer[1].results = <<>>
    /\ Resp.status = OK

\* C10 as stated: a second run of the same request against the same
\* upstream sends the response of the first run, status and body
C10_Determinism ==
    (Responded /\ prev # None) => Resp = prev[1].response

\* the locations whose forecast the upstream fails
FailingLocations ==
    {i \in 1..N : Coord(locations[i]) \in DOMAIN fcAnswer
                    /\ fcAnswer[Coord(locations[i])] # "ok"}

\* C10 amended: a second run of the same request against the same upstream
\* sends the same status as the first run, and the same body whenever the
\* upstream fails the forecast of at most one location
C10_DeterminismAmended ==
    (Responded /\ prev # None)
        => /\ Resp.status = prev[1].response.status
           /\ Cardinality(FailingLocations) <= 1 => Resp = prev[1].response

\* C10 witness: two runs whose fetches completed in different orders
C10_Witness ==
    /\ Responded
    /\ prev # None
    /\ N >= 2
    /\ Len(order) = N
    /\ Len(prev[1].order) = N
    /\ order # prev[1].order
    /\ Resp = prev[1].response

\* C11: qualified name construction.  The qualified name of every location
\* is the present names among admin4, admin3, admin2, in that order, each
\* followed by ", ", then admin1: no piece for an absent level, no separator
\* at either end and none doubled.  Oregon with Multnomah County alone gives
\* "Multnomah County, Oregon".
RECURSIVE WithSeparators(_)
WithSeparators(names) ==
    IF names = <<>> THEN <<>>
    ELSE <<Head(names)[1], ", ">> \o WithSeparators(Tail(names))

ExpectedName(item) ==
    WithSeparators(SelectSeq(<<item.admin4, item.admin3, item.admin2>>,
                             LAMBDA a : a # None))
        \o <<item.admin1>>

C11_QualifiedName ==
    GeoDecoded =>
        /\ Len(locations) = Len(geoAnswer[1].results)
        /\ \A k \in 1..Len(locations) :
             LET item == geoAnswer[1].results[k]
                 qn == locations[k].qualified_name
             IN  /\ qn = ExpectedName(item)
                 /\ qn[1] # ", "
                 /\ qn[Len(qn)] = item.admin1
                 /\ \A j \in 1..(Len(qn) - 1) : ~(qn[j] = ", " /\ qn[j + 1] = ", ")
                 /\ (item.admin1 = "Oregon" /\ item.admin2 = Some("Multnomah County")
                        /\ item.admin3 = None /\ item.admin4 = None)
                      => qn = <<"Multnomah County", ", ", "Oregon">>

\* C11 witness: the location of Oregon, Multnomah County with admin3 and
\* admin4 absent has been built
C11_Witness ==
    /\ GeoDecoded
    /\ Len(locations) >= 1
    /\ geoAnswer[1].results[1].admin1 = "Oregon"
    /\ geoAnswer[1].results[1].admin2 = Some("Multnomah County")
    /\ geoAnswer[1].results[1].admin3 = None
    /\ geoAnswer[1].results[1].admin4 = None
    /\ locations[1].qualified_name = <<"Multnomah County", ", ", "Oregon">>

\* C12 as stated: whenever the place parameter is absent from a GET request,
\* be it without query string or with a query string that carries at most a
\* valid count, the resolved search request has the fallback place
PlaceAbsent ==
    \/ req.query = None
    \/ /\ req.query # None
       /\ req.query[1].city = None
       /\ req.query[1].count \in {None, Some("1")}

C12_PlaceDefault ==
    (req.method = "GET" /\ pc # "start" /\ PlaceAbsent)
        => (query # None /\ query[1].city = "Portland")

\* C12 amended: the fallback place is used when the query string is absent;
\* a query string that is present without the place parameter, such as one
\* carrying only count, resolves no search request and is answered with 400
C12_PlaceDefaultAmended ==
    (req.method = "GET" /\ pc # "start")
        => /\ req.query = None => (query # None /\ query[1].city = "Portland")
           /\ (req.query # None /\ req.query[1].city = None)
                => /\ query = None
                   /\ Responded
                   /\ Resp.status = BAD_REQUEST
                   /\ calls = <<>>

\* C12 witness: a 400 for a query string that carries only count=1
C12_Witness ==
    /\ Responded
    /\ req.method = "GET"
    /\ req.query = Some([city |-> None, count |-> Some("1")])
    /\ query = None
    /\ Resp.status = BAD_REQUEST

\* C13: gateway authorization safety.  The gateway answers 200, with body
\* "authorized", exactly to a GET request whose Signature header is present,
\* is valid hex and decodes to the keyed hash of the request uri; every other
\* request gets another status, and a GET with a well-formed signature that
\* does not match gets 401.
ValidHex(s) == Len(s) % 2 = 0 /\ \A k \in 1..Len(s) : s[k] \in DOMAIN HexDigits
WellSigned(r) ==
    /\ r.signature # None
    /\ ValidHex(r.signature[1])
    /\ hex_decode(r.signature[1]).val = hmac_tag(<<18, 52, 86, 120>>, r.uri)

C13_Authorization ==
    Responded =>
        /\ Resp.status = OK <=> (req.method = "GET" /\ WellSigned(req))
        /\ Resp.status = OK => Resp.body.array = <<"authorized">>
        /\ (req.method = "GET" /\ req.signature # None
                /\ ValidHex(req.signature[1]) /\ ~WellSigned(req))
             => Resp.status = UNAUTHORIZED

\* C13 witness: a 401 for a GET whose signature is valid hex of the right
\* length but another value
C13_Witness ==
    /\ Responded
    /\ req.method = "GET"
    /\ req.uri = "/"
    /\ req.signature = Some(<<"a", "a">>)
    /\ Resp.status = UNAUTHORIZED

\* C14 as stated: every request whose method is not GET is rejected with 405
C14_MethodRejection ==
    (Responded /\ req.method # "GET") => Resp.status = METHOD_NOT_ALLOWED

\* C14 amended: a request whose method is not GET is rejected with 405 when
\* its Signature header is present and valid hex, matching or not, and with
\* 400 when the header is absent or not valid hex
C14_MethodRejectionAmended ==
    (Responded /\ req.method # "GET")
        => /\ (req.signature # None /\ ValidHex(req.signature[1]))
                => Resp.status = METHOD_NOT_ALLOWED
           /\ (req.signature = None \/ ~ValidHex(req.signature[1]))
                => Resp.status = BAD_REQUEST

\* C14 witness: a POST without Signature header answered with 400
C14_Witness ==
    /\ Responded
    /\ req.method = "POST"
    /\ req.signature = None
    /\ Resp.status = BAD_REQUEST

\* C15: filter service outcome.  The response is a 500 when the body cannot
\* be read or parsed or the filter reports an error; when the filter yields
\* results it is a 200 with the json text of the first one; and a 200 never
\* carries anything but that first result.
BodyValue == exactly_one(req.body[1])
FilterResults == filter_run(BodyValue.val)
FilterFails == req.body = None \/ ~BodyValue.ok \/ ~FilterResults.ok

C15_FilterOutcome ==
    Responded =>
        /\ FilterFails => Resp.status = INTERNAL_SERVER_ERROR
        /\ (~FilterFails /\ FilterResults.val # <<>>)
             => (Resp.status = OK /\ Resp.body.array = display(FilterResults.val[1]))
        /\ Resp.status = OK
             => /\ ~FilterFails
                /\ FilterResults.val # <<>>
                /\ Resp.body.array = display(FilterResults.val[1])

\* C15 restricted to the service of jaq/src/main.rs
C15_JaqOutcome == req.service = "jaq" => C15_FilterOutcome

\* C16 as stated: once the response was sent on a failed fetch, no sibling
\* fetch has been cancelled: each is resolved or still in flight
C16_SiblingsRun ==
    (Responded /\ SomeFetchFailed)
        => \A k \in 1..Len(fetches) : fetches[k].st # "cancelled"

\* C16 amended: once the response was sent on a failed fetch, no sibling is
\* in flight any more: those that had not resolved were dropped with the
\* join, exactly one fetch has failed, and the one response sent is the
\* failure of that fetch
C16_SiblingsDropped ==
    (Responded /\ SomeFetchFailed)
        => /\ \A k \in 1..Len(fetches) : fetches[k].st \in {"ok", "err", "cancelled"}
           /\ Cardinality({k \in 1..Len(fetches) : fetches[k].st = "err"}) = 1
           /\ \A k \in 1..Len(fetches) :
                fetches[k].st = "err" => Resp.body.chain = fetches[k].err
           /\ nresp = 1

\* C16 witness: the response was sent on a failure and a sibling whose
\* forecast the upstream would have answered was dropped
C16_Witness ==
    /\ Responded
    /\ nresp = 1
    /\ \E i, k \in 1..N :
         /\ fetches[i].st = "err"
         /\ fetches[k].st = "cancelled"
         /\ fcAnswer[Coord(locations[k])] = "ok"

\* C17: fan-out bound.  The number of forecast fetches the handler starts
\* is at most the count of the resolved query (10 when defaulted), whatever
\* number of results the geocoding service returned.
ForecastCalls == SelectSeq(calls, LAMBDA c : c.svc = "forecast")

C17_FanOutBound ==
    query # None
        => /\ Len(ForecastCalls) <= query[1].count
           /\ Len(fetches) <= query[1].count

\* C18: one fetch per location, no retry.  The forecast calls issued are at
\* most one per resolved location, call k being the one for location k, also
\* after a fetch failed; a 200 after the fan-out has exactly one per location.
C18_OneFetchEach ==
    /\ Len(ForecastCalls) <= N
    /\ \A k \in 1..Len(ForecastCalls) :
         /\ ForecastCalls[k].latitude = locations[k].latitude
         /\ ForecastCalls[k].longitude = locations[k].longitude
    /\ (Responded /\ GeoDecoded /\ Resp.status = OK) => Len(ForecastCalls) = N

\* C18 witness: a 200 for two locations after exactly two forecast calls
C18_Witness ==
    /\ Responded
    /\ Resp.status = OK
    /\ N = 2
    /\ Len(ForecastCalls) = 2

\* C19: failure attribution.  A response sent because a forecast fetch
\* failed is a 500 whose outermost context is "fetching weather for" the
\* qualified name of a location whose own fetch failed; it is the name of
\* no location whose fetch succeeded, and of a dropped one only if that is
\* the very location that failed, listed twice.
C19_FailureAttribution ==
    (Responded /\ SomeFetchFailed)
        => /\ Resp.status = INTERNAL_SERVER_ERROR
           /\ Resp.body.chain[1].msg = "fetching weather for"
           /\ \E i \in 1..N :
                /\ fetches[i].st = "err"
                /\ fcAnswer[Coord(locations[i])] # "ok"
                /\ Resp.body.chain[1].arg = locations[i].qualified_name
                /\ \A k \in 1..N :
                     Resp.body.chain[1].arg = locations[k].qualified_name
                        => /\ fetches[k].st # "ok"
                           /\ fetches[k].st = "cancelled" => locations[k] = locations[i]

\* C19 witness: both forecasts fail upstream, the second location's fetch
\* failed first and the response names it
C19_Witness ==
    /\ Responded
    /\ N = 2
    /\ locations[1] # locations[2]
    /\ fcAnswer[Coord(locations[1])] # "ok"
    /\ fetches[2].st = "err"
    /\ fetches[1].st = "cancelled"
    /\ Resp.body.chain[1].arg = locations[2].qualified_name

\* C20: stage ordering of the outbound calls.  A forecast call is only ever
\* issued after the one geocoding call of the request, once its answer was
\* received with success and decoded; a request answered with 400 or 405
\* issued no outbound call; a request whose geocoding stage failed issued no
\* forecast call.
C20_StageOrdering ==
    /\ \A k \in 1..Len(calls) :
         calls[k].svc = "forecast"
            => (k > 1 /\ calls[1].svc = "geocoding" /\ GeoDecoded)
    /\ \A k \in 2..Len(calls) : calls[k].svc = "forecast"
    /\ pc \in {"start", "geo_send", "geo_body"} => ForecastCalls = <<>>
    /\ (Responded /\ Resp.status \in {BAD_REQUEST, METHOD_NOT_ALLOWED}) => calls = <<>>
    /\ GeoFailed => ForecastCalls = <<>>

\* C20 witness: the join is awaited after the geocoding call was followed by
\* the forecast calls of two locations
C20_Witness ==
    /\ pc = "join"
    /\ Len(calls) = 3
    /\ calls[1].svc = "geocoding"
    /\ calls[2].svc = "forecast"
    /\ calls[3].svc = "forecast"

\* C21: response liveness.  When every outbound call that is issued
\* resolves, every request is eventually answered, on each path; a response
\* is sent at most once and it is there exactly when one was sent.
C21_ResponseLiveness ==
    /\ [](nresp <= 1)
    /\ [](Responded <=> (nresp = 1 /\ response # None))
    /\ [][nresp' # nresp => (nresp = 0 /\ nresp' = 1 /\ pc' = "responded")]_vars
    /\ (pc = "start") ~> Responded

\* C21 witness: the one response of a request whose geocoding call failed in
\* transport
C21_Witness ==
    /\ Responded
    /\ nresp = 1
    /\ GeoFailed
    /\ geoAnswer[1].kind = "transport"
    /\ Resp.status = INTERNAL_SERVER_ERROR

====
